---- MODULE Spec2Model ----
(***************************************************************************)
(* spkeeper (src/main.go): one run of main() saves every stored procedure  *)
(* of a database to <outDir>/<database>/<name>.sql through a pool of       *)
(* goroutines (saveAllProcedures, spSaver, saveProcedure) and then commits *)
(* the changed files to the git repository in outDir (getRepo,             *)
(* commitChanges, getHeadCommit).  The database, the working directory and *)
(* the repository persist from one run to the next.                        *)
(***************************************************************************)
EXTENDS Integers, Sequences, FiniteSets, TLC

\* ---------------------------------------------------------------- bounds
\* Most stored procedures the database holds (names are 1..MaxProcs).
MaxProcs == 2
\* Largest workerCount handed to saveAllProcedures.
MaxW == 2
\* Runs of main() in one behaviour.
MaxRuns == 2

\* ------------------------------------------------------ program constants
\* make(chan string, 100) / make(chan error, 100)
QueueCap == 100
\* Channel capacities explored: the smallest one and the program's.
Caps == {1, QueueCap}

Procs == 1..MaxProcs

\* Paths of the working directory and of the index: the file of each procedure
\* of the database being saved, and one file of another database's
\* subdirectory, left there by an earlier run for that database.
OtherPath == MaxProcs + 1
Paths == 1..(MaxProcs + 1)

\* Characters of names, paths and commit messages.  A run of message text
\* that holds no line feed is written as one character.
Star == "*"
Slash == "/"
LF == "\n"
Quote == "'"
SqlExt == ".sql"
TextUpdate == "Update with procedures from database "
TextChanged == "These files have changed:"

\* Database names (the -d flag), and the other database's directory and file.
PlainDb == <<"d">>
StarDb == <<"d", Star>>
OtherDb == <<"d", "2">>
OtherFileName == <<"x", SqlExt>>

\* Procedure names (ROUTINE_NAME) by procedure, in path order: plain ones, and
\* ones in which the first name holds a line feed.
PlainNames == [p \in Procs |-> <<"p", ToString(p)>>]
BrokenNames == [p \in Procs |-> IF p = 1 THEN <<"p", LF, "1">> ELSE <<"p", ToString(p)>>]

\* A file that does not exist (file contents are sequences of characters).
NoFile == <<0>>

\* Content of the other database's file.
OtherBody == <<4>>

\* Stored procedure bodies as sp_helptext returns them: a sequence of text
\* fragments (rows), each a sequence of characters.
BodyA == << <<1>>, <<2>> >>
BodyB == << <<3>> >>
Bodies == {BodyA, BodyB}

\* Outcomes of saveProcedure: nil, the error whose text contains
\* "sql: expected 2 destination arguments in Scan, not 1", any other error.
Nil == "nil"
ErrArity == "errArity"
ErrOther == "err"

VARIABLES
    \* ---- what persists across runs
    body,        \* database: procedure -> its fragments
    file,        \* working directory: path -> content of the file
    repoInit,    \* a repository exists in outDir
    index,       \* the repository's index on disk: path -> content
    trees,       \* tree objects in the object store
    commits,     \* commit objects, by id 1..Len: [parent, tree, changes, message]
    master,      \* refs/heads/master: a commit id, 0 while unborn
    db,          \* the database name of the -d flag, as characters
    procName,    \* database: procedure -> its name, as characters
    \* ---- one run of main()
    pc,          \* where main() is
    runs,        \* runs started so far
    exitCode,    \* exit status of the last finished run (-1: none yet)
    names,       \* result of getProcedureNames
    workerCount, \* argument of saveAllProcedures
    cap,         \* capacity of saveNames and of results
    sent,        \* names the producer loop has sent
    saveNames,   \* chan string
    closed,      \* close(saveNames) happened
    results,     \* chan error (each message tagged with the name's position)
    apc,         \* aggregator goroutine: "none", "loop", "finished"
    ai,          \* aggregator's loop counter i
    errCount,    \* the shared failure counter
    errVar,      \* err, the named result the aggregator assigns at line 178
    saveErr,     \* what saveAllProcedures returned: 0 is nil, k > 0 the count
    wpc,         \* worker -> "none","range","create","fetch","flush","send","exit"
    wname,       \* worker -> position in names of the name it holds (0: none)
    wres,        \* worker -> outcome of its saveProcedure call
    wbuf,        \* worker -> bytes held in its bufio.Writer
    wopen,       \* worker -> its output file is open
    idx,         \* in-memory index of commitChanges
    changedFiles,\* paths reported by the AddAll callback
    treeId,      \* result of idx.WriteTree()
    headCommit,  \* result of getHeadCommit (0: nil)
    \* ---- history, for stating properties only
    deq,         \* position -> times the name was dequeued by a worker
    emitted,     \* position -> outcomes sent on results for it
    outcome,     \* position -> the outcome saveProcedure returned for it
    faulty,      \* an I/O or database fault hit the save stage of this run
    stageErr,    \* idx.AddAll returned an error in this run (discarded)
    stage,       \* the last step the run reached
    runLimit,    \* runs this behaviour may start
    snap,        \* repository and run facts recorded when the run started
    touched,     \* procedures whose file os.Create made or truncated in this run
    done         \* repository operations commitChanges completed in this run

pvars == <<body, file, repoInit, index, trees, commits, master, db, procName>>
mvars == <<pc, runs, exitCode, names, workerCount, cap, sent, saveErr>>
cvars == <<saveNames, closed, results>>
avars == <<apc, ai, errCount, errVar>>
wvars == <<wpc, wname, wres, wbuf, wopen>>
gvars == <<idx, changedFiles, treeId, headCommit>>
hvars == <<deq, emitted, outcome, faulty, stageErr, stage, runLimit, snap,
           touched, done>>
vars == <<pvars, mvars, cvars, avars, wvars, gvars, hvars>>

\* ------------------------------------------------------------- helpers
\* Worker ids: the goroutines started by the loop of line 194.
Workers == 1..(MaxW + 1)

\* Faulty variant: each row overwrites the rows written before it.
LastRowOnly(frs) == IF frs = <<>> THEN <<>> ELSE frs[Len(frs)]

RECURSIVE Concat(_)
\* The bytes of a list of fragments, in order (w.Write called row by row).
Concat(frs) == IF frs = <<>> THEN <<>> ELSE Head(frs) \o Concat(Tail(frs))

Prefixes(s) == {SubSeq(s, 1, k) : k \in 0..Len(s)}
StrictPrefixes(s) == {SubSeq(s, 1, k) : k \in 0..(Len(s) - 1)}

EmptyTree == [p \in Paths |-> NoFile]

RECURSIVE SortedSeq(_)
\* The paths of a set in the order the working directory is walked.
SortedSeq(S) ==
    IF S = {} THEN <<>>
    ELSE LET m == CHOOSE x \in S : \A y \in S : x <= y
         IN <<m>> \o SortedSeq(S \ {m})

SeqToSet(s) == {s[k] : k \in 1..Len(s)}

ZeroPos == [k \in 1..MaxProcs |-> 0]
NoOutcome == [k \in 1..MaxProcs |-> "none"]

IdleWorkers(v) == [w \in Workers |-> v]

\* The path of a file relative to outDir, the root of the repository:
\* <database>/<name>.sql (saveProcedure, line 108).
PathString(p) ==
    IF p = OtherPath THEN OtherDb \o <<Slash>> \o OtherFileName
    ELSE db \o <<Slash>> \o procName[p] \o <<SqlExt>>

\* commitChanges, line 236: filepath.Join(conf.db.database, "*").
Pathspec == db \o <<Slash, Star>>

RECURSIVE Match(_, _)
\* A path against a pathspec as idx.AddAll matches them: a "*" of the pattern
\* stands for any run of characters, every other character for itself.
Match(pat, str) ==
    IF pat = <<>> THEN str = <<>>
    ELSE IF Head(pat) = Star
         THEN Match(Tail(pat), str) \/ (str # <<>> /\ Match(pat, Tail(str)))
         ELSE str # <<>> /\ Head(str) = Head(pat) /\ Match(Tail(pat), Tail(str))

\* Tree of the commit master points to (the empty tree while unborn).
HeadTree == IF master = 0 THEN EmptyTree ELSE commits[master].tree

\* Files of the database's subdirectory that were added or modified since
\* the last commit.
ChangedSinceCommit == {p \in Procs : file[p] # NoFile /\ file[p] # HeadTree[p]}

\* ------------------------------------------- decisions taken by the code
\* Faulty variant: no worker goroutine is started.
NoWorkers(W) == 0

\* saveAllProcedures, line 194: for w := 0; w <= workerCount; w++
NumWorkers(W) == W + 1

\* Faulty variants of the aggregator's loop bound: one outcome too few, one
\* too many.
AggLoopShort(i, n) == i < n - 1
AggLoopLong(i, n) == i <= n

\* Aggregator, line 177: for i := 0; i < len(names); i++
AggLoopCond(i, n) == i < n

\* Faulty variant: every error is counted, the Scan arity one too.
CountsEveryError(res) == res # Nil

\* Aggregator, lines 179-186: an error is counted unless its text contains
\* the Scan arity message, which is only reported.
Counted(res) == res # Nil /\ res # ErrArity

\* Faulty variant: checkFatal prints the error and goes on.
NeverExits(err) == FALSE

\* checkFatal, lines 91-96 (err is 0 for nil).
CheckFatalExits(err) == err # 0

\* Faulty variant: the empty ChangeSet is not told apart.
NeverNothing(cf) == FALSE

\* commitChanges, line 245: if len(changedFiles) == 0.
NothingChanged(cf) == Len(cf) = 0

\* commitChanges, lines 236-242: the value idx.AddAll returns is dropped; the
\* err tested at line 240 is the nil one left by repo.Index().
StageErrFatal(addErr) == FALSE

\* Faulty variant: a bare return, handing back what the aggregator left in
\* err.
BareReturn(count, e) == IF e = Nil THEN 0 ELSE 1

\* saveAllProcedures, lines 206-211: nil when the counter is zero, else an
\* error made from the count; e, the value the aggregator left in err, plays
\* no part.
ReturnValue(count, e) == count

\* Faulty variant: the index is persisted before the tree is written.
IndexFirst(step) ==
    CASE step = "addAll" -> "idxWrite"
      [] step = "idxWrite" -> "writeTree"
      [] step = "writeTree" -> "lookupTree"
      [] step = "lookupTree" -> "getHead"
      [] step = "getHead" -> "createCommit"

\* commitChanges, lines 250-287: the step that follows each step.
NextOf(step) ==
    CASE step = "addAll" -> "writeTree"
      [] step = "writeTree" -> "idxWrite"
      [] step = "idxWrite" -> "lookupTree"
      [] step = "lookupTree" -> "getHead"
      [] step = "getHead" -> "createCommit"

RECURSIVE JoinLines(_)
\* strings.Join(lines, "\n").
JoinLines(lines) ==
    IF lines = <<>> THEN <<>>
    ELSE IF Len(lines) = 1 THEN lines[1]
         ELSE Head(lines) \o <<LF>> \o JoinLines(Tail(lines))

\* Faulty variant: the heading line and the blank line after it are left out.
MessageWithoutHeading(database, changedPaths) ==
    <<TextUpdate, Quote>> \o database \o <<Quote, LF, LF>> \o JoinLines(changedPaths)

\* buildCommitMessage, lines 312-315.
buildCommitMessage(database, changedPaths) ==
    <<TextUpdate, Quote>> \o database \o <<Quote, LF, LF, TextChanged, LF, LF>>
        \o JoinLines(changedPaths)

\* ---------------------------------------------------------------- Init
InitWith(limit, ws, caps, dbs, namings, others) ==
    /\ body = [p \in Procs |-> BodyA]
    /\ db \in dbs
    /\ procName \in namings
    /\ \E o \in others : file = [EmptyTree EXCEPT ![OtherPath] = o]
    /\ repoInit = FALSE
    /\ index = EmptyTree
    /\ trees = {}
    /\ commits = <<>>
    /\ master = 0
    /\ pc = "idle"
    /\ runs = 0
    /\ exitCode = -1
    /\ names = <<>>
    /\ workerCount \in ws
    /\ cap \in caps
    /\ sent = 0
    /\ saveErr = 0
    /\ saveNames = <<>>
    /\ closed = FALSE
    /\ results = <<>>
    /\ apc = "none"
    /\ ai = 0
    /\ errCount = 0
    /\ errVar = Nil
    /\ wpc = IdleWorkers("none")
    /\ wname = IdleWorkers(0)
    /\ wres = IdleWorkers(Nil)
    /\ wbuf = IdleWorkers(<<>>)
    /\ wopen = IdleWorkers(FALSE)
    /\ idx = EmptyTree
    /\ changedFiles = <<>>
    /\ treeId = EmptyTree
    /\ headCommit = 0
    /\ deq = ZeroPos
    /\ emitted = ZeroPos
    /\ outcome = NoOutcome
    /\ faulty = FALSE
    /\ stageErr = FALSE
    /\ stage = "none"
    /\ runLimit = limit
    /\ snap = [body |-> body, index |-> EmptyTree, trees |-> {}, ncommits |-> 0,
               master |-> 0, prevOk |-> FALSE, prevStageErr |-> FALSE,
               sameDb |-> FALSE, fresh |-> TRUE]
    /\ touched = {}
    /\ done = <<>>

Init == InitWith(MaxRuns, {1}, {QueueCap}, {PlainDb}, {PlainNames}, {NoFile})

\* os.Exit, or main returning: the process and all its goroutines end.
Exit(code, stg) ==
    /\ pc' = "exited"
    /\ exitCode' = code
    /\ stage' = stg
    /\ sent' = 0
    /\ saveNames' = <<>>
    /\ closed' = FALSE
    /\ results' = <<>>
    /\ apc' = "none"
    /\ ai' = 0
    /\ errCount' = 0
    /\ errVar' = Nil
    /\ wpc' = IdleWorkers("none")
    /\ wname' = IdleWorkers(0)
    /\ wres' = IdleWorkers(Nil)
    /\ wbuf' = IdleWorkers(<<>>)
    /\ wopen' = IdleWorkers(FALSE)
    /\ idx' = EmptyTree
    /\ treeId' = EmptyTree
    /\ headCommit' = 0

\* What a step of main() between two steps leaves alone.
MainKeeps ==
    UNCHANGED <<pvars, runs, names, workerCount, cap, runLimit, snap,
                deq, emitted, outcome, faulty, stageErr, touched, done>>

\* ------------------------------------------------------- the environment
\* Somebody alters a stored procedure between two runs.
ChangeBody ==
    /\ pc \in {"idle", "exited"}
    /\ runs < runLimit
    /\ \E p \in Procs : \E b \in Bodies \ {body[p]} :
          body' = [body EXCEPT ![p] = b]
    /\ UNCHANGED <<file, repoInit, index, trees, commits, master, db, procName,
                   mvars, cvars, avars, wvars, gvars, hvars>>

\* ---------------------------------------------------------------- main
\* main, lines 318-326: flags, isValid, sqlx.Connect, getProcedureNames.
StartRun ==
    /\ pc \in {"idle", "exited"}
    /\ runs < runLimit
    /\ runs' = runs + 1
    /\ \E n \in 0..MaxProcs :
          /\ names' = [k \in 1..n |-> k]
          /\ snap' = [body |-> body, index |-> index, trees |-> trees,
                      ncommits |-> Len(commits), master |-> master,
                      prevOk |-> (exitCode = 0 /\ ~faulty),
                      prevStageErr |-> stageErr,
                      sameDb |-> (runs > 0 /\ body = snap.body /\ names' = names),
                      fresh |-> (~repoInit /\ file = EmptyTree)]
    /\ deq' = ZeroPos
    /\ emitted' = ZeroPos
    /\ outcome' = NoOutcome
    /\ faulty' = FALSE
    /\ stageErr' = FALSE
    /\ touched' = {}
    /\ done' = <<>>
    /\ changedFiles' = <<>>
    /\ saveErr' = 0
    /\ \/ /\ pc' = "mkdir"
          /\ stage' = "started"
          /\ exitCode' = -1
          /\ UNCHANGED <<sent, cvars, avars, wvars, idx, treeId, headCommit>>
       \/ Exit(1, "startup")
    /\ UNCHANGED <<pvars, workerCount, cap, runLimit>>

\* saveAllProcedures, lines 162-166: os.MkdirAll.
Mkdir ==
    /\ pc = "mkdir"
    /\ \/ /\ pc' = "launch"
          /\ UNCHANGED <<exitCode, stage, sent, cvars, avars, wvars, idx, treeId,
                         headCommit>>
       \/ Exit(1, "mkdir")
    /\ UNCHANGED <<saveErr, changedFiles>>
    /\ MainKeeps

\* saveAllProcedures, lines 168-196: the channels, the aggregator goroutine and
\* the worker goroutines.
Launch ==
    /\ pc = "launch"
    /\ pc' = "produce"
    /\ stage' = "save"
    /\ saveNames' = <<>>
    /\ results' = <<>>
    /\ closed' = FALSE
    /\ apc' = "loop"
    /\ ai' = 0
    /\ errCount' = 0
    /\ errVar' = Nil
    /\ wpc' = [w \in Workers |->
                 IF w <= NumWorkers(workerCount) THEN "range" ELSE "none"]
    /\ sent' = 0
    /\ UNCHANGED <<exitCode, saveErr, wname, wres, wbuf, wopen, gvars>>
    /\ MainKeeps

\* saveAllProcedures, lines 199-201: saveNames <- name.
Produce ==
    /\ pc = "produce"
    /\ sent < Len(names)
    /\ Len(saveNames) < cap
    /\ saveNames' = Append(saveNames, sent + 1)
    /\ sent' = sent + 1
    /\ UNCHANGED <<pc, exitCode, stage, saveErr, closed, results, avars, wvars,
                   gvars>>
    /\ MainKeeps

\* saveAllProcedures, line 202: close(saveNames); then main waits at line 204.
CloseNames ==
    /\ pc = "produce"
    /\ sent = Len(names)
    /\ closed' = TRUE
    /\ pc' = "waitDone"
    /\ UNCHANGED <<exitCode, stage, saveErr, sent, saveNames, results, avars,
                   wvars, gvars>>
    /\ MainKeeps

\* saveAllProcedures, lines 206-211, and checkFatal at line 328: the result is
\* made from the counter; return assigns it to err, whatever err held.
Return ==
    /\ pc = "ret"
    /\ saveErr' = ReturnValue(errCount, errVar)
    /\ IF CheckFatalExits(saveErr')
       THEN Exit(1, "save")
       ELSE /\ pc' = "getRepo"
            /\ errVar' = Nil
            /\ UNCHANGED <<exitCode, stage, sent, cvars, apc, ai, errCount, wvars,
                           idx, treeId, headCommit>>
    /\ UNCHANGED changedFiles
    /\ MainKeeps

\* ---------------------------------------------------------- aggregator
\* Lines 177-188: err = <-results, and the count.
AggRecv ==
    /\ apc = "loop"
    /\ AggLoopCond(ai, Len(names))
    /\ results # <<>>
    /\ results' = Tail(results)
    /\ ai' = ai + 1
    /\ errVar' = Head(results).res
    /\ errCount' = IF Counted(Head(results).res) THEN errCount + 1 ELSE errCount
    /\ UNCHANGED <<pvars, mvars, saveNames, closed, apc, wvars, gvars, hvars>>

\* Line 190 meets line 204: done is unbuffered, so the send and the receive
\* happen together.
AggDone ==
    /\ apc = "loop"
    /\ ~AggLoopCond(ai, Len(names))
    /\ pc = "waitDone"
    /\ apc' = "finished"
    /\ pc' = "ret"
    /\ UNCHANGED <<pvars, runs, exitCode, names, workerCount, cap, sent, saveErr,
                   cvars, ai, errCount, errVar, wvars, gvars, hvars>>

\* -------------------------------------------------------------- workers
\* spSaver, line 150: for n := range names.
WDequeue(w) ==
    /\ wpc[w] = "range"
    /\ saveNames # <<>>
    /\ saveNames' = Tail(saveNames)
    /\ wname' = [wname EXCEPT ![w] = Head(saveNames)]
    /\ wpc' = [wpc EXCEPT ![w] = "create"]
    /\ deq' = [deq EXCEPT ![Head(saveNames)] = @ + 1]
    /\ UNCHANGED <<pvars, mvars, closed, results, avars, wres, wbuf, wopen,
                   gvars, emitted, outcome, faulty, stageErr, stage, runLimit,
                   snap, touched, done>>

\* spSaver, line 150: the range ends once saveNames is closed and drained.
WExit(w) ==
    /\ wpc[w] = "range"
    /\ saveNames = <<>>
    /\ closed
    /\ wpc' = [wpc EXCEPT ![w] = "exit"]
    /\ UNCHANGED <<pvars, mvars, cvars, avars, wname, wres, wbuf, wopen, gvars,
                   hvars>>

\* saveProcedure, lines 108-113: os.Create truncates or creates the file.
WCreate(w) ==
    /\ wpc[w] = "create"
    /\ LET p == names[wname[w]] IN
       \/ /\ file' = [file EXCEPT ![p] = <<>>]
          /\ touched' = touched \cup {p}
          /\ wopen' = [wopen EXCEPT ![w] = TRUE]
          /\ wpc' = [wpc EXCEPT ![w] = "fetch"]
          /\ UNCHANGED <<wres, outcome, faulty>>
       \/ /\ wres' = [wres EXCEPT ![w] = ErrOther]
          /\ outcome' = [outcome EXCEPT ![wname[w]] = ErrOther]
          /\ wpc' = [wpc EXCEPT ![w] = "send"]
          /\ faulty' = TRUE
          /\ UNCHANGED <<file, wopen, touched>>
    /\ UNCHANGED <<body, repoInit, index, trees, commits, master, db, procName,
                   mvars, cvars, avars, wname, wbuf, gvars, deq, emitted,
                   stageErr, stage, runLimit, snap, done>>

\* writeProcedureBody, lines 125-145, writing into the bufio.Writer of line 117.
WFetch(w) ==
    /\ wpc[w] = "fetch"
    /\ wpc' = [wpc EXCEPT ![w] = "flush"]
    /\ LET p == names[wname[w]]
           frs == body[p]
       IN
       \/ \* every row read and buffered
          /\ wbuf' = [wbuf EXCEPT ![w] = Concat(frs)]
          /\ wres' = [wres EXCEPT ![w] = Nil]
          /\ UNCHANGED <<file, faulty>>
       \/ \* db.Query fails (line 127)
          /\ wbuf' = [wbuf EXCEPT ![w] = <<>>]
          /\ wres' = [wres EXCEPT ![w] = ErrOther]
          /\ faulty' = TRUE
          /\ UNCHANGED file
       \/ \* rows.Scan fails after k rows (line 135)
          \E k \in 0..(Len(frs) - 1) : \E e \in {ErrArity, ErrOther} :
             /\ wbuf' = [wbuf EXCEPT ![w] = Concat(SubSeq(frs, 1, k))]
             /\ wres' = [wres EXCEPT ![w] = e]
             /\ faulty' = TRUE
             /\ UNCHANGED file
       \/ \* rows.Next stops early on a driver error; rows.Err is never read
          \E k \in 0..(Len(frs) - 1) :
             /\ wbuf' = [wbuf EXCEPT ![w] = Concat(SubSeq(frs, 1, k))]
             /\ wres' = [wres EXCEPT ![w] = Nil]
             /\ faulty' = TRUE
             /\ UNCHANGED file
       \/ \* w.Write fails (line 140): the buffer overflowed into a failing
          \* file write; bufio keeps the error and drops what it holds
          \E pre \in StrictPrefixes(Concat(frs)) :
             /\ file' = [file EXCEPT ![p] = @ \o pre]
             /\ wbuf' = [wbuf EXCEPT ![w] = <<>>]
             /\ wres' = [wres EXCEPT ![w] = ErrOther]
             /\ faulty' = TRUE
    /\ UNCHANGED <<body, repoInit, index, trees, commits, master, db, procName,
                   mvars, cvars, avars, wname, wopen, gvars, deq, emitted,
                   outcome, stageErr, stage, runLimit, snap, touched, done>>

\* Faulty variant: the file is not closed when saveProcedure returns.
StaysOpen(open) == open

\* saveProcedure, line 113: defer f.Close() leaves the file closed on return.
OpenAfterReturn(open) == FALSE

\* saveProcedure, lines 113 and 118 on return: the deferred w.Flush() and then
\* f.Close(), whose errors are dropped.
WFlush(w) ==
    /\ wpc[w] = "flush"
    /\ wpc' = [wpc EXCEPT ![w] = "send"]
    /\ LET p == names[wname[w]] IN
       \/ /\ file' = [file EXCEPT ![p] = @ \o wbuf[w]]
          /\ UNCHANGED faulty
       \/ \E pre \in StrictPrefixes(wbuf[w]) :
             /\ file' = [file EXCEPT ![p] = @ \o pre]
             /\ faulty' = TRUE
    /\ wbuf' = [wbuf EXCEPT ![w] = <<>>]
    /\ wopen' = [wopen EXCEPT ![w] = OpenAfterReturn(wopen[w])]
    /\ outcome' = [outcome EXCEPT ![wname[w]] = wres[w]]
    /\ UNCHANGED <<body, repoInit, index, trees, commits, master, db, procName,
                   mvars, cvars, avars, wname, wres, gvars, deq, emitted,
                   stageErr, stage, runLimit, snap, touched, done>>

\* Faulty variant: a worker ends after a save that failed.
StopsOnFailure(res) == IF res = Nil THEN "range" ELSE "exit"

\* spSaver, lines 150-152: whatever saveProcedure returned, the loop goes back
\* to the range over saveNames.
AfterSend(res) == "range"

\* spSaver, line 151: results <- (what saveProcedure returned).
WSend(w) ==
    /\ wpc[w] = "send"
    /\ Len(results) < cap
    /\ results' = Append(results, [pos |-> wname[w], res |-> wres[w]])
    /\ emitted' = [emitted EXCEPT ![wname[w]] = @ + 1]
    /\ wpc' = [wpc EXCEPT ![w] = AfterSend(wres[w])]
    /\ wname' = [wname EXCEPT ![w] = 0]
    /\ wres' = [wres EXCEPT ![w] = Nil]
    /\ UNCHANGED <<pvars, mvars, saveNames, closed, avars, wbuf, wopen, gvars,
                   deq, outcome, faulty, stageErr, stage, runLimit, snap,
                   touched, done>>

Worker(w) ==
    \/ WDequeue(w)
    \/ WExit(w)
    \/ WCreate(w)
    \/ WFetch(w)
    \/ WFlush(w)
    \/ WSend(w)

\* -------------------------------------------------------- commit stage
\* What a step of the commit stage leaves alone besides the repository.
CommitKeeps ==
    UNCHANGED <<body, file, db, procName, runs, names, workerCount, cap,
                saveErr, runLimit, snap, deq, emitted, outcome, faulty, touched>>

\* A step of the commit stage that goes on to the next one.
GoOn(next) ==
    /\ pc' = next
    /\ stage' = next
    /\ UNCHANGED <<exitCode, sent, cvars, avars, wvars>>

\* getRepo, lines 215-224: git.OpenRepository, else git.InitRepository.
GetRepo ==
    /\ pc = "getRepo"
    /\ \/ /\ repoInit' = TRUE
          /\ GoOn("repoIndex")
          /\ UNCHANGED <<idx, treeId, headCommit>>
       \/ /\ Exit(1, "getRepo")
          /\ UNCHANGED repoInit
    /\ UNCHANGED <<index, trees, commits, master, changedFiles, stageErr, done>>
    /\ CommitKeeps

\* commitChanges, lines 229-234: repo.Index() reads the index from disk.
RepoIndex ==
    /\ pc = "repoIndex"
    /\ \/ /\ idx' = index
          /\ GoOn("addAll")
          /\ UNCHANGED <<treeId, headCommit>>
       \/ Exit(1, "repoIndex")
    /\ UNCHANGED <<repoInit, index, trees, commits, master, changedFiles,
                   stageErr, done>>
    /\ CommitKeeps

\* Paths the pathspec matches whose working-directory file differs from the
\* index entry, in the order idx.AddAll meets them.
ToStage(ix) ==
    SortedSeq({p \in Paths : /\ Match(Pathspec, PathString(p))
                             /\ file[p] # NoFile
                             /\ file[p] # ix[p]})

\* The index after the first j paths of todo were added to it.
Staged(ix, todo, j) ==
    [p \in Paths |-> IF \E k \in 1..j : todo[k] = p THEN file[p] ELSE ix[p]]

\* commitChanges, lines 236-248: idx.AddAll calls the callback on a path and
\* then adds it; what AddAll returns is not looked at.
AddAll ==
    /\ pc = "addAll"
    /\ LET todo == ToStage(idx) IN
       \E ok \in BOOLEAN : \E j \in 0..Len(todo) :
          /\ ok => j = Len(todo)
          /\ stageErr' = ~ok
          \* on a failure at path j the callback ran for it, the add did not
          /\ changedFiles' = SubSeq(todo, 1, j)
          /\ LET added == IF ok \/ j = 0 THEN j ELSE j - 1 IN
             IF StageErrFatal(~ok) /\ ~ok
             THEN Exit(1, "addAll")
             ELSE IF NothingChanged(changedFiles')
                  THEN Exit(0, "nochanges")
                  ELSE /\ idx' = Staged(idx, todo, added)
                       /\ GoOn(NextOf("addAll"))
                       /\ UNCHANGED <<treeId, headCommit>>
    /\ UNCHANGED <<repoInit, index, trees, commits, master, done>>
    /\ CommitKeeps

\* commitChanges, lines 250-253: idx.WriteTree().
WriteTree ==
    /\ pc = "writeTree"
    /\ \/ /\ trees' = trees \cup {idx}
          /\ treeId' = idx
          /\ done' = Append(done, "tree")
          /\ GoOn(NextOf("writeTree"))
          /\ UNCHANGED <<idx, headCommit>>
       \/ /\ Exit(1, "writeTree")
          /\ UNCHANGED <<trees, done>>
    /\ UNCHANGED <<repoInit, index, commits, master, changedFiles, stageErr>>
    /\ CommitKeeps

\* commitChanges, lines 255-258: idx.Write() persists the index.
IdxWrite ==
    /\ pc = "idxWrite"
    /\ \/ /\ index' = idx
          /\ done' = Append(done, "index")
          /\ GoOn(NextOf("idxWrite"))
          /\ UNCHANGED <<idx, treeId, headCommit>>
       \/ /\ Exit(1, "idxWrite")
          /\ UNCHANGED <<index, done>>
    /\ UNCHANGED <<repoInit, trees, commits, master, changedFiles, stageErr>>
    /\ CommitKeeps

\* commitChanges, lines 261-264: repo.LookupTree(treeId).
LookupTree ==
    /\ pc = "lookupTree"
    /\ \/ /\ done' = Append(done, "lookup")
          /\ GoOn(NextOf("lookupTree"))
          /\ UNCHANGED <<idx, treeId, headCommit>>
       \/ /\ Exit(1, "lookupTree")
          /\ UNCHANGED done
    /\ UNCHANGED <<repoInit, index, trees, commits, master, changedFiles,
                   stageErr>>
    /\ CommitKeeps

\* getHeadCommit, lines 291-308: nil on an unborn branch, else master's target.
GetHeadCommit ==
    /\ pc = "getHead"
    /\ \/ /\ headCommit' = master
          /\ done' = Append(done, "head")
          /\ GoOn(NextOf("getHead"))
          /\ UNCHANGED <<idx, treeId>>
       \/ /\ Exit(1, "getHead")
          /\ UNCHANGED done
    /\ UNCHANGED <<repoInit, index, trees, commits, master, changedFiles,
                   stageErr>>
    /\ CommitKeeps

\* The commit object of lines 279-285: with headCommit as parent, or none.
NewCommit(parent, tree, changes) ==
    [parent |-> parent, tree |-> tree, changes |-> changes,
     message |-> buildCommitMessage(db, [k \in 1..Len(changes) |->
                                             PathString(changes[k])])]

\* commitChanges, lines 279-287: repo.CreateCommit on refs/heads/master; main
\* then returns.
CreateCommit ==
    /\ pc = "createCommit"
    /\ \/ /\ commits' = Append(commits, NewCommit(headCommit, treeId, changedFiles))
          /\ master' = Len(commits) + 1
          /\ done' = Append(done, "commit")
          /\ Exit(0, "committed")
       \/ /\ Exit(1, "createCommit")
          /\ UNCHANGED <<commits, master, done>>
    /\ UNCHANGED <<repoInit, index, trees, changedFiles, stageErr>>
    /\ CommitKeeps

\* ------------------------------------------------------------ the system
MainStep ==
    \/ StartRun
    \/ Mkdir
    \/ Launch
    \/ Produce
    \/ CloseNames
    \/ Return
    \/ GetRepo
    \/ RepoIndex
    \/ AddAll
    \/ WriteTree
    \/ IdxWrite
    \/ LookupTree
    \/ GetHeadCommit
    \/ CreateCommit

AggStep == AggRecv \/ AggDone

Next ==
    \/ ChangeBody
    \/ MainStep
    \/ AggStep
    \/ \E w \in Workers : Worker(w)

\* Several runs with the program's queue capacity and two workers' worth of
\* concurrency: the repository across runs.
Spec == Init /\ [][Next]_vars

\* One run, every worker count and capacity: the save pipeline.
InitPipe == InitWith(1, 1..MaxW, Caps, {PlainDb}, {PlainNames}, {NoFile})
SpecPipe == InitPipe /\ [][Next]_vars

\* One run with one worker, for every database name and naming of the
\* procedures, beside another database's subdirectory: paths and messages.
InitNames ==
    InitWith(1, {1}, {QueueCap}, {PlainDb, StarDb}, {PlainNames, BrokenNames},
             {NoFile, OtherBody})
SpecNames == InitNames /\ [][Next]_vars

\* The goroutines of one run are scheduled fairly by the Go runtime, and every
\* database call and file operation returns.
Fairness ==
    /\ WF_vars(MainStep)
    /\ WF_vars(AggStep)
    /\ \A w \in Workers : WF_vars(Worker(w))
SpecLive == InitPipe /\ [][Next]_vars /\ Fairness

\* ============================================================ properties
\* Positions of main() inside the commit stage (getRepo, commitChanges).
CommitPcs == {"getRepo", "repoIndex", "addAll", "writeTree", "idxWrite",
              "lookupTree", "getHead", "createCommit"}

\* saveAllProcedures has returned through the done signal in the current run.
SaveReturned ==
    \/ pc \in CommitPcs
    \/ pc = "exited" /\ stage \notin {"startup", "mkdir"}

\* Workers inside a saveProcedure call.
Saving == {w \in Workers : wpc[w] \in {"create", "fetch", "flush"}}

\* Positions of the current name list.
Positions == 1..Len(names)

\* Names whose saveProcedure call returned an error / a counted error.
FailedPos == {k \in Positions : outcome[k] \in {ErrArity, ErrOther}}
HardFailedPos == {k \in Positions : outcome[k] = ErrOther}

RepoAsAtStart ==
    /\ index = snap.index
    /\ trees = snap.trees
    /\ Len(commits) = snap.ncommits
    /\ master = snap.master

\* C1: during saveAllProcedures(names, W, ...) at most W saveProcedure calls
\* (fetch-and-write operations) are in progress at the same time.
C1_AtMostWWorkers == Cardinality(Saving) <= workerCount

\* C2 as stated: once saveAllProcedures has returned, it returned an error iff
\* some procedure's save returned an error, and the error carries the number
\* of such procedures.
C2_CountsEveryFailure ==
    SaveReturned => saveErr = Cardinality(FailedPos)

\* C2 as amended: the aggregate error carries the number of procedures whose
\* save returned an error other than the Scan arity error ("sql: expected 2
\* destination arguments in Scan, not 1"), which is reported but not counted;
\* success iff that number is 0, for every W and scheduling.
C2_CountsHardFailures ==
    SaveReturned => saveErr = Cardinality(HardFailedPos)

\* C2 witness: a batch with one uncounted and one counted failure returned.
C2_Witness ==
    /\ SaveReturned
    /\ \E k \in Positions : outcome[k] = ErrArity
    /\ \E k \in Positions : outcome[k] = ErrOther
    /\ saveErr = 1

\* C3: every submitted name is dequeued by at most one worker and yields at
\* most one outcome, the aggregator never consumes more than was emitted, and
\* when done is signalled every name was dequeued once, produced one outcome
\* and all N outcomes were consumed.
C3_ExactlyOnce ==
    /\ \A k \in 1..MaxProcs : deq[k] <= 1 /\ emitted[k] <= deq[k]
    /\ \A k \in 1..MaxProcs : k \notin Positions => deq[k] = 0
    /\ apc = "loop" =>
          /\ ai <= Len(names)
          /\ ai + Len(results) = Cardinality({k \in Positions : emitted[k] = 1})
    /\ apc = "finished" => ai = Len(names) /\ results = <<>>
    /\ (apc = "finished" \/ SaveReturned) =>
          \A k \in Positions : deq[k] = 1 /\ emitted[k] = 1

\* C3 witness: done was signalled for a batch of several names.
C3_Witness ==
    /\ apc = "finished"
    /\ Len(names) >= 2
    /\ ai = Len(names)

\* C4: under fair scheduling saveAllProcedures, once it has started its
\* goroutines, is eventually unblocked by the done signal, for every N, W and
\* channel capacity.
C4_EventuallyReturns == (pc = "launch") ~> (pc = "ret")

\* C4 witness: a batch longer than the channels' capacity returned.
C4_Witness ==
    /\ pc = "ret"
    /\ cap = 1
    /\ Len(names) >= 2

\* C5 as stated: a run whose save batch ended with failures still goes through
\* the commit stage before it exits.
C5_CommitsDespiteFailures ==
    (pc = "exited" /\ saveErr > 0) =>
        stage \in (CommitPcs \cup {"nochanges", "committed"})

\* C5 as amended: when saveAllProcedures returns an error (k > 0 counted
\* failures) the process exits with status 1 at once: the commit stage is not
\* entered and the repository is as the run found it; the commit stage runs
\* only after a save that returned nil.
C5_FailedSaveSkipsCommit ==
    /\ saveErr > 0 =>
          /\ pc = "exited"
          /\ exitCode = 1
          /\ stage = "save"
          /\ RepoAsAtStart
    /\ pc \in CommitPcs => saveErr = 0

\* C5 witness: a run ended after a batch in which one save failed and
\* another succeeded.
C5_Witness ==
    /\ pc = "exited"
    /\ saveErr > 0
    /\ \E k \in Positions : outcome[k] = Nil
    /\ saveErr < Len(names)

\* C6: while the commit stage runs no worker is inside saveProcedure or holds
\* an open or unflushed file, and a worker sends an outcome only after its
\* file was flushed and closed.
C6_NoOverlap ==
    /\ pc \in CommitPcs =>
          \A w \in Workers :
             /\ wpc[w] \in {"none", "range", "exit"}
             /\ ~wopen[w]
             /\ wbuf[w] = <<>>
    /\ \A w \in Workers : wpc[w] = "send" => ~wopen[w] /\ wbuf[w] = <<>>
    /\ \A w \in Workers : wpc[w] \in {"none", "range", "exit"} => ~wopen[w]

\* C6 witness: the commit stage runs after a batch of several names while a
\* worker goroutine is still alive, waiting on the closed queue.
C6_Witness ==
    /\ pc \in CommitPcs
    /\ Len(names) >= 2
    /\ \E w \in Workers : wpc[w] = "range"
    /\ \E w \in Workers : wpc[w] = "exit"

\* Tree of the parent of commit c (the empty tree for a root commit).
ParentTree(c) == IF c.parent = 0 THEN EmptyTree ELSE commits[c.parent].tree

\* C7: a successful commitChanges in which staging reported no error either
\* creates a commit whose ChangeSet is exactly the files added or modified
\* since the previous commit, or creates none only if no file differs from
\* the last commit; also in a repository left by a run that failed part-way.
C7_ChangeSetExact ==
    (pc = "exited" /\ exitCode = 0 /\ ~stageErr) =>
        /\ stage = "committed" =>
              SeqToSet(commits[master].changes) =
                 {p \in Procs : file[p] # NoFile
                                /\ file[p] # ParentTree(commits[master])[p]}
        /\ stage = "nochanges" => ChangedSinceCommit = {}

\* C8: a second full sync after a first one that succeeded, with the same
\* procedures and bodies and no fault while saving, ends with an empty
\* ChangeSet and no new commit.
C8_Idempotent ==
    (pc = "exited" /\ exitCode = 0 /\ ~faulty /\ snap.prevOk /\ snap.sameDb) =>
        /\ changedFiles = <<>>
        /\ Len(commits) = snap.ncommits
        /\ master = snap.master

\* C9: when the ChangeSet is empty commitChanges ends there with success and
\* the index on disk, the object store and the branch are as it found them.
C9_NoChangesNoWrites ==
    (stage \in (CommitPcs \cup {"nochanges", "committed"}) \ {"getRepo", "repoIndex", "addAll"}
       /\ changedFiles = <<>>) =>
        /\ pc = "exited"
        /\ stage = "nochanges"
        /\ exitCode = 0
        /\ RepoAsAtStart

\* C9 witness: a run on a repository that has commits found nothing to commit.
C9_Witness ==
    /\ pc = "exited"
    /\ stage = "nochanges"
    /\ master # 0
    /\ Len(names) >= 1
    /\ ~stageErr

\* C10: history is a linear chain that master follows (the first commit has
\* no parent, every later one has the previous head as its only parent), and
\* a first run on a fresh output directory that saves every procedure and
\* succeeds leaves exactly one parentless commit whose tree holds all files.
C10_LinearHistory ==
    /\ master = Len(commits)
    /\ \A c \in 1..Len(commits) : commits[c].parent = c - 1
    /\ (pc = "exited" /\ exitCode = 0 /\ snap.fresh /\ ~faulty /\ Len(names) >= 1) =>
          /\ Len(commits) = 1
          /\ commits[1].parent = 0
          /\ \A k \in Positions : commits[1].tree[names[k]] = file[names[k]]

\* C11: a failure of the staging operation (idx.AddAll) is fatal: once it has
\* failed the run has ended with exit status 1, and the index on disk, the
\* tree objects and the commits are as they were when the run started.
C11_StagingFailureFatal ==
    stageErr => /\ pc = "exited"
                /\ exitCode = 1
                /\ RepoAsAtStart

\* Files created or truncated in this run for the names of the list.
Written == {k \in Positions : names[k] \in touched}

\* C12: once saveAllProcedures has returned for a list with k failing fetches,
\* exactly N - k files have been written (created or truncated): no file was
\* created or modified for a procedure whose save failed.
C12_NoFileForFailedFetch ==
    SaveReturned =>
       /\ \A k \in FailedPos : k \notin Written
       /\ Cardinality(Written) = Len(names) - Cardinality(FailedPos)

\* C13: no failure is silently dropped: a save whose outcome is success has
\* put the whole body of the procedure into its file.
C13_SuccessMeansWholeBody ==
    \A k \in Positions :
       outcome[k] = Nil => file[names[k]] = Concat(body[names[k]])

\* A path lies under the subdirectory of the database being saved.
UnderDb(p) ==
    LET s == PathString(p) IN
    /\ Len(s) > Len(db) + 1
    /\ SubSeq(s, 1, Len(db) + 1) = db \o <<Slash>>

\* Commits created in the current run.
NewCommits == {c \in 1..Len(commits) : c > snap.ncommits}

\* C14: a run for database D stages only paths under D/: the ChangeSet holds
\* no path outside D/, and the index entries and committed tree entries of
\* every other database's subdirectory are after the run what they were
\* before it (stated for runs whose staging operation reported no error).
C14_OnlyOwnSubdirectory ==
    ~stageErr =>
       /\ \A k \in 1..Len(changedFiles) : UnderDb(changedFiles[k])
       /\ \A p \in Paths : ~UnderDb(p) =>
             /\ index[p] = snap.index[p]
             /\ \A c \in NewCommits : commits[c].tree[p] = snap.index[p]

\* C15: a failing save of one name never stops the batch: no worker ends
\* while the queue is still open or holds a name, so after a failure it goes
\* back to the queue; and once some save has failed, every name of the list
\* not yet taken from the queue is eventually taken by a worker, however many
\* earlier saves failed.
C15_FailureNeverStopsBatch ==
    /\ [](\A w \in Workers : wpc[w] = "exit" => closed /\ saveNames = <<>>)
    /\ \A k \in 1..MaxProcs :
          (pc \in {"produce", "waitDone"} /\ k \in Positions /\ FailedPos # {}
             /\ deq[k] = 0)
          ~> (deq[k] = 1)

\* C15 witness: every save of a batch of several names failed, and yet every
\* name was taken from the queue and its outcome consumed.
C15_Witness ==
    /\ pc = "ret"
    /\ Len(names) >= 2
    /\ FailedPos = Positions
    /\ \A k \in Positions : deq[k] = 1
    /\ ai = Len(names)

\* main() is inside saveAllProcedures, after its goroutines were started.
InSave == pc \in {"produce", "waitDone", "ret"}

\* C16 as stated: with N = 0 names saveAllProcedures creates no worker task and
\* nothing is sent on or received from the results channel.
C16_EmptyListNoWorkers ==
    (InSave /\ names = <<>>) =>
       /\ \A w \in Workers : wpc[w] = "none"
       /\ results = <<>>
       /\ ai = 0

\* C16 as amended: with N = 0 names nothing is sent on or received from the
\* results channel, no file is written and no failure is counted, and
\* saveAllProcedures returns success; but the aggregator and the worker
\* goroutines are started all the same.
C16_EmptyListReturnsNil ==
    names = <<>> =>
       /\ results = <<>> /\ ai = 0 /\ errCount = 0
       /\ \A k \in 1..MaxProcs : deq[k] = 0 /\ emitted[k] = 0
       /\ touched = {}
       /\ InSave => apc # "none" /\ \E w \in Workers : wpc[w] # "none"
       /\ SaveReturned => saveErr = 0 /\ ~(pc = "exited" /\ stage = "save")

\* C16 witness: saveAllProcedures returned nil for an empty list, after its
\* workers found the queue closed.
C16_Witness ==
    /\ pc = "ret"
    /\ names = <<>>
    /\ apc = "finished"
    /\ \E w \in Workers : wpc[w] = "exit"

RECURSIVE TotalLen(_)
\* Number of characters in a list of fragments.
TotalLen(frs) == IF frs = <<>> THEN 0 ELSE Len(Head(frs)) + TotalLen(Tail(frs))

\* s holds the fragments of frs one after the other, in their order, and
\* nothing else.
InOrder(frs, s) ==
    /\ Len(s) = TotalLen(frs)
    /\ \A i \in 1..Len(frs) : \A j \in 1..Len(frs[i]) :
          s[TotalLen(SubSeq(frs, 1, i - 1)) + j] = frs[i][j]

\* C17: for a non-empty list of distinct names whose saves meet no database
\* or file fault, once saveAllProcedures has returned exactly one file per
\* name was written, each file holds the fragments of its procedure in the
\* order received and nothing else, and success was reported; for every W,
\* capacity and scheduling.
C17_AllSavedInOrder ==
    (SaveReturned /\ ~faulty /\ Len(names) >= 1) =>
       /\ touched = {names[k] : k \in Positions}
       /\ \A k \in Positions : InOrder(body[names[k]], file[names[k]])
       /\ saveErr = 0
       /\ ~(pc = "exited" /\ stage = "save")

\* C17 witness: a batch of two procedures, each with a body of several
\* fragments, was saved without fault and returned.
C17_Witness ==
    /\ pc = "getRepo"
    /\ ~faulty
    /\ Len(names) = 2
    /\ \A k \in Positions : Len(body[names[k]]) >= 2 /\ file[names[k]] # <<>>

HasLF(s) == \E i \in 1..Len(s) : s[i] = LF

RECURSIVE SplitLines(_)
\* The lines of a text: the runs of characters between its line feeds.
SplitLines(s) ==
    IF ~HasLF(s) THEN <<s>>
    ELSE LET i == CHOOSE i \in 1..Len(s) :
                     s[i] = LF /\ \A j \in 1..(i - 1) : s[j] # LF
         IN <<SubSeq(s, 1, i - 1)>> \o SplitLines(SubSeq(s, i + 1, Len(s)))

\* The paths of a commit's ChangeSet, as text.
PathsOf(c) == [k \in 1..Len(commits[c].changes) |-> PathString(commits[c].changes[k])]

\* The lines the message of a commit starts with: the summary naming the
\* database, an empty line, the heading, an empty line.
HeaderLines == << <<TextUpdate, Quote>> \o db \o <<Quote>>, <<>>, <<TextChanged>>, <<>> >>

\* C18 as stated: the lines of every commit's message are the summary line
\* naming the database, an empty line, "These files have changed:", an empty
\* line, and then exactly the ChangeSet's paths, one per line, in the order
\* they were recorded during staging.
C18_MessageListsPaths ==
    \A c \in 1..Len(commits) : SplitLines(commits[c].message) = HeaderLines \o PathsOf(c)

\* C18 as amended: the same, for every commit whose ChangeSet paths hold no
\* line feed; and the paths of the commit are the ChangeSet as staging
\* recorded it.
C18_MessageListsPathsNoLF ==
    /\ \A c \in 1..Len(commits) :
          (\A k \in 1..Len(PathsOf(c)) : ~HasLF(PathsOf(c)[k])) =>
             SplitLines(commits[c].message) = HeaderLines \o PathsOf(c)
    /\ (pc = "exited" /\ stage = "committed") =>
          commits[Len(commits)].changes = changedFiles

\* C18 witness: a commit of several paths, none of which holds a line feed.
C18_Witness ==
    \E c \in 1..Len(commits) :
       /\ Len(PathsOf(c)) >= 2
       /\ \A k \in 1..Len(PathsOf(c)) : ~HasLF(PathsOf(c)[k])

\* The repository operations of commitChanges after staging, in the order the
\* claim gives them and in the order of the code.
ClaimedOrder == <<"index", "tree", "lookup", "head", "commit">>
CodeOrder == <<"tree", "index", "lookup", "head", "commit">>

IsPrefix(s, t) == Len(s) <= Len(t) /\ s = SubSeq(t, 1, Len(s))

\* The operations a run has completed when it is at, or has ended in, a step.
DoneAt(step) ==
    CASE step = "writeTree" -> 0
      [] step = "idxWrite" -> 1
      [] step = "lookupTree" -> 2
      [] step = "getHead" -> 3
      [] step = "createCommit" -> 4
      [] step = "committed" -> 5
      [] OTHER -> 0

\* C19 as stated: for a non-empty ChangeSet commitChanges persists the updated
\* index, then writes the tree object, then resolves the head commit, then
\* creates the commit, and a failure of any step stops the run before any
\* later step.
C19_IndexThenTree == IsPrefix(done, ClaimedOrder)

\* C19 as amended: commitChanges writes the tree object from the in-memory
\* index, then persists the index, then looks the tree up, resolves the head
\* commit and creates the commit; the operations completed are always those
\* that come before the step the run is at or ended in, so a failure of any
\* step stops the run before any later step, and nothing is done for an empty
\* ChangeSet.
C19_TreeThenIndex ==
    /\ IsPrefix(done, CodeOrder)
    /\ Len(done) = DoneAt(stage)
    /\ done # <<>> => changedFiles # <<>>

\* C19 witness: a run completed every operation and created the commit.
C19_Witness ==
    /\ pc = "exited"
    /\ stage = "committed"
    /\ done = CodeOrder

\* main() is past the receive from done (line 204) in the current run.
PastDone == pc = "ret" \/ pc \in CommitPcs

\* C20: once saveAllProcedures is past the done signal the aggregator has
\* ended, both channels are empty and the queue is closed, so no worker is
\* saving or blocked on a send and every worker left can only end; the
\* failure counter is final when the caller reads it, and the value returned
\* is made from that count alone, whatever the aggregator left in err; and
\* every worker eventually ends, by itself or with the process.
C20_QuiescentAfterReturn ==
    /\ [](PastDone =>
            /\ apc = "finished"
            /\ results = <<>> /\ saveNames = <<>> /\ closed
            /\ \A w \in Workers : wpc[w] \in {"none", "range", "exit"}
            /\ errCount = Cardinality(HardFailedPos))
    /\ [](SaveReturned => saveErr = Cardinality(HardFailedPos))
    /\ (pc = "ret") ~> (\A w \in Workers : wpc[w] \in {"none", "exit"})

\* C20 witness: saveAllProcedures returned nil although the last value the
\* aggregator put in err was an error, while a worker has not ended yet.
C20_Witness ==
    /\ pc = "getRepo"
    /\ saveErr = 0
    /\ Len(names) = 2
    /\ \E k \in Positions : outcome[k] = ErrArity
    /\ \E w \in Workers : wpc[w] = "range"

====
